---- MODULE Spec2Model ----
(***************************************************************************)
(* TopologyTest (src/.history/TopologyTest_20241201150527.py): a validator *)
(* object holding a feature collection, the rules of its dataset type and  *)
(* a merged configuration, with six topology checks and an orchestrator.   *)
(*                                                                         *)
(* Geometry is the external engine (shapely/GEOS).  It is modelled on an   *)
(* integer grid: every geometry is an axis-aligned closed box              *)
(* [x1,x2] x [y1,y2]; a box with area is a Polygon, a box flat in one      *)
(* direction is a LineString (a segment), a box flat in both is a Point.   *)
(* For such shapes the predicates below are the exact DE-9IM answers.      *)
(***************************************************************************)
EXTENDS Integers, Sequences, FiniteSets, TLC

VARIABLES
    geometries,             \* self.geometries: list of (geom, attributes)
    rules,                  \* self.rules: the dataset type's rule mapping
    config,                 \* self.config: merged configuration mapping
    invalid_intersections,  \* self.invalid_intersections: cache, None at first
    last,                   \* the last completed call: operation, arguments, outcome
    calls                   \* the calls in progress: each caller's position

vars == <<geometries, rules, config, invalid_intersections, last, calls>>

(***************************************************************************)
(* Bounds of the model.                                                    *)
(***************************************************************************)
MaxFeatures == 2
MaxConditions == 2
MaxTolerance == 1
MaxWorkers == 2
MaxArea == 2

(***************************************************************************)
(* Python values.  A JSON scalar is a tagged value; None is JSON null and  *)
(* the default of dict.get.  bool is a subtype of int in Python, so        *)
(* True == 1 and False == 0 under ==, which is what list membership uses.  *)
(***************************************************************************)
None == [py |-> "None"]
Str(s) == [py |-> "str", v |-> s]
Num(n) == [py |-> "int", v |-> n]
Bool(b) == [py |-> "bool", v |-> IF b THEN 1 ELSE 0]
\* a list object, and a geometry object standing for a region of grid cells
PyList(items) == [py |-> "list", v |-> items]
PyRegion(cells) == [py |-> "geometry", v |-> cells]

EmptyDict == [k \in {} |-> None]

\* dict.get(key, default)
Get(d, key, default) == IF key \in DOMAIN d THEN d[key] ELSE default

\* a == b on scalars
PyEq(a, b) ==
    \/ a = b
    \/ /\ a.py \in {"int", "bool"}
       /\ b.py \in {"int", "bool"}
       /\ a.v = b.v

\* value in allowed_values  (allowed_values is a list)
PyIn(value, allowed_values) ==
    \E k \in 1..Len(allowed_values) : PyEq(value, allowed_values[k])

(***************************************************************************)
(* _is_valid_intersection: the rule evaluator.                             *)
(***************************************************************************)
RECURSIVE condition_loop(_, _, _, _)
condition_loop(conditions, k, attr1, attr2) ==
    IF k > Len(conditions) THEN FALSE
    ELSE LET condition == conditions[k]
             attribute == condition.attribute
             allowed_values == Get(condition, "values", <<>>)
         IN  IF \/ PyIn(Get(attr1, attribute, None), allowed_values)
                \/ PyIn(Get(attr2, attribute, None), allowed_values)
             THEN TRUE
             ELSE condition_loop(conditions, k + 1, attr1, attr2)

_is_valid_intersection_allow_all(attr1, attr2) ==
    LET conditions == Get(rules, "allow_intersection_if", <<>>)
    IN  IF conditions = <<>> THEN TRUE
        ELSE condition_loop(conditions, 1, attr1, attr2)

_is_valid_intersection(attr1, attr2) ==
    LET conditions == Get(rules, "allow_intersection_if", <<>>)
    IN  IF conditions = <<>> THEN FALSE
        ELSE condition_loop(conditions, 1, attr1, attr2)

NoCall == [op |-> "none"]

\* no call is in progress
NoCalls == <<>>

(***************************************************************************)
(* Inputs of the rule evaluator: attribute mappings over two keys, and     *)
(* condition lists of up to MaxConditions conditions.                      *)
(***************************************************************************)
Keys == {"type", "layer"}
AttrScalars == {Str("bridge"), Num(1), None}
AttrMaps == UNION {[D -> AttrScalars] : D \in SUBSET Keys}

AllowedLists ==
    {<<>>, <<Str("bridge")>>, <<None>>, <<Str("bridge"), None>>, <<Bool(TRUE)>>}
Conditions == [attribute : Keys, values : AllowedLists]
ConditionLists == UNION {[1..n -> Conditions] : n \in 0..MaxConditions}

RuleInputs ==
    {[allow_overlap_if |-> <<>>]}
    \cup {[allow_intersection_if |-> cs, allow_overlap_if |-> <<>>] :
            cs \in ConditionLists}

(***************************************************************************)
(* Geometries.  is_valid and is_simple are the engine's verdicts: a ring   *)
(* or a line that touches or crosses itself is not simple, and such a      *)
(* polygon is not valid either.  overlay is what the engine's overlay      *)
(* operations (intersection, union, difference) do with the geometry as an *)
(* operand: they succeed ("ok"), return a geometry that is not valid       *)
(* ("invalid") or raise ("raise"); on a valid operand they succeed.        *)
(***************************************************************************)
Box(geom_type, x1, y1, x2, y2) ==
    [geom_type |-> geom_type, x1 |-> x1, y1 |-> y1, x2 |-> x2, y2 |-> y2,
     is_simple |-> TRUE, is_valid |-> TRUE, overlay |-> "ok"]

SquareA == Box("Polygon", 0, 0, 2, 2)
SquareB == Box("Polygon", 1, 1, 3, 3)      \* overlaps SquareA in a unit square
SquareC == Box("Polygon", 3, 3, 4, 4)      \* touches SquareB at one corner
SquareD == Box("Polygon", 0, 0, 1, 1)      \* lies inside SquareA
RoadH   == Box("LineString", 0, 1, 4, 1)   \* crosses SquareA, runs along SquareB
RoadV   == Box("LineString", 1, 0, 1, 4)   \* crosses RoadH in one point
\* a line that shares the stretch from x = 2 to x = 4 with RoadH
RoadH2 == Box("LineString", 2, 1, 6, 1)
\* a point on RoadH
PointP == Box("Point", 1, 1, 1, 1)
\* a MultiPolygon of one unit square, away from the other squares
MultiSquare == Box("MultiPolygon", 4, 0, 5, 1)
\* a square with an interior ring: the unit cell at (1, 1) is not covered
HoledSquare == Box("Polygon", 0, 0, 3, 3) @@ [hole |-> <<1, 1>>]
\* rings over SquareA that touch themselves, one for each thing the
\* engine may do with such an operand
Twisted(overlay) ==
    [SquareA EXCEPT !.is_simple = FALSE, !.is_valid = FALSE, !.overlay = overlay]

Outcomes == {"ok", "invalid", "raise"}

Geoms ==
    {SquareA, SquareB, SquareC, RoadH, RoadV} \cup {Twisted(o) : o \in Outcomes}

\* what an overlay of g and h does
overlay_outcome(g, h) ==
    IF "raise" \in {g.overlay, h.overlay} THEN "raise"
    ELSE IF "invalid" \in {g.overlay, h.overlay} THEN "invalid"
    ELSE "ok"

Max(a, b) == IF a >= b THEN a ELSE b
Min(a, b) == IF a <= b THEN a ELSE b

\* geom.bounds: (minx, miny, maxx, maxy)
bounds(g) == <<g.x1, g.y1, g.x2, g.y2>>

\* bounding boxes share a point
BoundsIntersect(b1, b2) ==
    /\ b1[1] <= b2[3] /\ b2[1] <= b1[3]
    /\ b1[2] <= b2[4] /\ b2[2] <= b1[4]

\* g.intersects(h)
intersects(g, h) == BoundsIntersect(bounds(g), bounds(h))

Dimension(x1, y1, x2, y2) ==
    (IF x1 < x2 THEN 1 ELSE 0) + (IF y1 < y2 THEN 1 ELSE 0)

TypeOfDimension(d) ==
    IF d = 2 THEN "Polygon" ELSE IF d = 1 THEN "LineString" ELSE "Point"

\* g.intersection(h), for g and h that intersect
intersection(g, h) ==
    LET x1 == Max(g.x1, h.x1)
        y1 == Max(g.y1, h.y1)
        x2 == Min(g.x2, h.x2)
        y2 == Min(g.y2, h.y2)
    IN  Box(TypeOfDimension(Dimension(x1, y1, x2, y2)), x1, y1, x2, y2)

\* geom.area
area(g) == (g.x2 - g.x1) * (g.y2 - g.y1)

\* g covers every point of h
Covers(g, h) ==
    /\ g.x1 <= h.x1 /\ h.x2 <= g.x2
    /\ g.y1 <= h.y1 /\ h.y2 <= g.y2

\* the interiors of two intervals meet (a flat interval is its own interior)
InteriorsMeet1(a1, a2, b1, b2) ==
    IF a1 = a2 /\ b1 = b2 THEN a1 = b1
    ELSE IF a1 = a2 THEN b1 < a1 /\ a1 < b2
    ELSE IF b1 = b2 THEN a1 < b1 /\ b1 < a2
    ELSE Max(a1, b1) < Min(a2, b2)

InteriorsMeet(g, h) ==
    /\ InteriorsMeet1(g.x1, g.x2, h.x1, h.x2)
    /\ InteriorsMeet1(g.y1, g.y2, h.y1, h.y2)

\* g.contains(h): no point of h outside g, and the interiors meet
contains(g, h) == Covers(g, h) /\ InteriorsMeet(g, h)

GeomDimension(g) == Dimension(g.x1, g.y1, g.x2, g.y2)

\* g.overlaps(h): same dimension, the interiors meet in that dimension,
\* and neither covers the other
overlaps(g, h) ==
    /\ GeomDimension(g) = GeomDimension(h)
    /\ intersects(g, h)
    /\ GeomDimension(intersection(g, h)) = GeomDimension(g)
    /\ ~Covers(g, h)
    /\ ~Covers(h, g)

(***************************************************************************)
(* Features: a row of the GeoDataFrame built from self.geometries, with    *)
(* its two columns.                                                        *)
(***************************************************************************)
Feature(geometry, attributes) ==
    [geometry |-> geometry, attributes |-> attributes]

NumFeatures == Len(geometries)

\* the pairs (i, j), i < j, of positions in the frame
Pairs == {p \in (1..NumFeatures) \X (1..NumFeatures) : p[1] < p[2]}

\* the order in which the spatial index returns its hits is its own
SindexOrders == {"asc", "desc"}

\* an index that leaves out the boxes that only touch the query box
RECURSIVE sindex_scan_interiors(_, _, _)
sindex_scan_interiors(b, k, step) ==
    IF k < 1 \/ k > NumFeatures THEN <<>>
    ELSE (IF LET c == bounds(geometries[k].geometry)
             IN  /\ c[1] < b[3] /\ b[1] < c[3]
                 /\ c[2] < b[4] /\ b[2] < c[4]
          THEN <<k>> ELSE <<>>)
         \o sindex_scan_interiors(b, k + step, step)

RECURSIVE sindex_scan(_, _, _)
sindex_scan(b, k, step) ==
    IF k < 1 \/ k > NumFeatures THEN <<>>
    ELSE (IF BoundsIntersect(bounds(geometries[k].geometry), b)
          THEN <<k>> ELSE <<>>)
         \o sindex_scan(b, k + step, step)

\* list(sindex.intersection(b)): the positions whose bounding box meets b
sindex_intersection(order, b) ==
    IF order = "asc" THEN sindex_scan(b, 1, 1)
    ELSE sindex_scan(b, NumFeatures, -1)

(***************************************************************************)
(* check_intersections.  An issue is the tuple (geom1, geom2, inter_geom,  *)
(* attr1, attr2) of the source; ref1 and ref2 are the positions of the two *)
(* features the tuple's objects belong to (the tuple holds references).    *)
(* evaluated lists the pairs that reach the geometric test.                *)
(***************************************************************************)
IntersectionIssue(i, j, inter_geom) ==
    [geom1 |-> geometries[i].geometry, geom2 |-> geometries[j].geometry,
     inter_geom |-> inter_geom,
     attr1 |-> geometries[i].attributes, attr2 |-> geometries[j].attributes,
     ref1 |-> i, ref2 |-> j]

\* the guard of the inner loop: skip the row itself and the rows before it
skip_match_no_guard(idx, name) == FALSE

skip_match(idx, name) == idx >= name

\* the threshold test on the area of the intersection
area_passes_strict(inter_geom) ==
    area(inter_geom) > Get(config, "min_intersection_area", 0)

area_passes(inter_geom) ==
    area(inter_geom) >= Get(config, "min_intersection_area", 0)

\* the body of the inner loop for the pair (idx, name), past the guard
evaluate_pair(idx, name) ==
    LET row == geometries[idx]
        match == geometries[name]
        outcome == overlay_outcome(row.geometry, match.geometry)
        inter_geom == [intersection(row.geometry, match.geometry)
                         EXCEPT !.is_valid = (outcome = "ok")]
    IN  IF ~intersects(row.geometry, match.geometry) THEN <<>>
        ELSE IF _is_valid_intersection(row.attributes, match.attributes)
        THEN <<>>
        ELSE IF outcome = "raise" THEN <<>>          \* except Exception: continue
        ELSE IF ~inter_geom.is_valid THEN <<>>       \* continue
        ELSE IF area_passes(inter_geom)
        THEN <<IntersectionIssue(idx, name, inter_geom)>>
        ELSE <<>>

\* the inner loop with `break` in place of `continue` in the handler and
\* after the validity test
RECURSIVE match_loop_break(_, _, _, _)
match_loop_break(idx, possible_matches_index, m, acc) ==
    IF m > Len(possible_matches_index) THEN acc
    ELSE LET name == possible_matches_index[m]
             row == geometries[idx]
             match == geometries[name]
             faulty == /\ intersects(row.geometry, match.geometry)
                       /\ ~_is_valid_intersection(row.attributes, match.attributes)
                       /\ overlay_outcome(row.geometry, match.geometry) # "ok"
             next == [issues |-> acc.issues \o evaluate_pair(idx, name),
                      evaluated |-> Append(acc.evaluated, <<idx, name>>)]
         IN  IF skip_match(idx, name)
             THEN match_loop_break(idx, possible_matches_index, m + 1, acc)
             ELSE IF faulty THEN next
             ELSE match_loop_break(idx, possible_matches_index, m + 1, next)

RECURSIVE match_loop(_, _, _, _)
match_loop(idx, possible_matches_index, m, acc) ==
    IF m > Len(possible_matches_index) THEN acc
    ELSE LET name == possible_matches_index[m]
         IN  IF skip_match(idx, name)
             THEN match_loop(idx, possible_matches_index, m + 1, acc)
             ELSE match_loop(idx, possible_matches_index, m + 1,
                    [issues |-> acc.issues \o evaluate_pair(idx, name),
                     evaluated |-> Append(acc.evaluated, <<idx, name>>)])

RECURSIVE row_loop(_, _, _)
row_loop(idx, order, acc) ==
    IF idx > NumFeatures THEN acc
    ELSE row_loop(idx + 1, order,
            match_loop(idx,
                       sindex_intersection(order, bounds(geometries[idx].geometry)),
                       1, acc))

\* the test on the cache at the head of check_intersections
cache_hit_if_truthy ==
    invalid_intersections # None /\ Len(invalid_intersections.v) > 0

cache_hit == invalid_intersections # None

\* check_intersections(): the list returned, the cache afterwards, and
\* the pairs evaluated by this call
check_intersections(order) ==
    IF cache_hit
    THEN [ret |-> invalid_intersections, cache |-> invalid_intersections,
          evaluated |-> <<>>, cached |-> TRUE]
    ELSE LET r == row_loop(1, order, [issues |-> <<>>, evaluated |-> <<>>])
         IN  [ret |-> PyList(r.issues), cache |-> PyList(r.issues),
              evaluated |-> r.evaluated, cached |-> FALSE]

CheckIntersections ==
    \E order \in SindexOrders :
        LET r == check_intersections(order)
        IN  /\ invalid_intersections' = r.cache
            /\ last' = [op |-> "check_intersections", ret |-> r.ret,
                        evaluated |-> r.evaluated, cached |-> r.cached]
            /\ UNCHANGED <<geometries, rules, config, calls>>

(***************************************************************************)
(* The other five checks.                                                  *)
(***************************************************************************)
Positions == 1..NumFeatures

\* the positions in S, in increasing order
RECURSIVE Ascending(_)
Ascending(S) ==
    IF S = {} THEN <<>>
    ELSE LET m == CHOOSE x \in S : \A y \in S : x <= y
         IN  <<m>> \o Ascending(S \ {m})

\* the pairs (i, j), i < j, in the order of the two nested loops
RECURSIVE PairsInOrder(_, _)
PairsInOrder(i, j) ==
    IF i > NumFeatures THEN <<>>
    ELSE IF j > NumFeatures THEN PairsInOrder(i + 1, i + 2)
    ELSE <<(<<i, j>>)>> \o PairsInOrder(i, j + 1)

SingleIssue(k) ==
    [geom |-> geometries[k].geometry, attrs |-> geometries[k].attributes,
     ref |-> k]

PairIssue(p) ==
    [geom1 |-> geometries[p[1]].geometry, geom2 |-> geometries[p[2]].geometry,
     attr1 |-> geometries[p[1]].attributes, attr2 |-> geometries[p[2]].attributes,
     ref1 |-> p[1], ref2 |-> p[2]]

\* check_self_intersections()
check_self_intersections ==
    LET hit(k) == ~geometries[k].geometry.is_simple
        ks == Ascending({k \in Positions : hit(k)})
    IN  PyList([n \in 1..Len(ks) |-> SingleIssue(ks[n])])

\* the unit cells a polygon covers, named by their lower left corner
CellsOf(g) ==
    {c \in (g.x1..(g.x2 - 1)) \X (g.y1..(g.y2 - 1)) :
        "hole" \in DOMAIN g => c # g.hole}

Buffer_padded(cells, tolerance) ==
    UNION {{<<c[1] + dx, c[2] + dy>> :
              dx \in (-tolerance - 1)..(tolerance + 1),
              dy \in (-tolerance - 1)..(tolerance + 1)} :
           c \in cells}

\* region.buffer(tolerance), in whole grid units: every cell within
\* tolerance of a cell of the region
Buffer(cells, tolerance) ==
    UNION {{<<c[1] + dx, c[2] + dy>> :
              dx \in (-tolerance)..tolerance, dy \in (-tolerance)..tolerance} :
           c \in cells}

\* check_gaps(tolerance)
check_gaps(tolerance) ==
    IF geometries = <<>> THEN None
    ELSE LET polygons == {k \in Positions :
                            geometries[k].geometry.geom_type = "Polygon"}
         IN  IF polygons = {} THEN None
             ELSE IF \E k \in polygons : geometries[k].geometry.overlay = "raise"
             THEN None                             \* except Exception: return None
             ELSE LET all_polys == UNION {CellsOf(geometries[k].geometry) :
                                            k \in polygons}
                      buffered == Buffer(all_polys, tolerance)
                      gaps == buffered \ all_polys
                  IN  IF gaps = {} THEN None ELSE PyRegion(gaps)

\* check_dangles(): Point is not imported by the module, so the first
\* LineString of the collection raises NameError
check_dangles ==
    IF \E k \in Positions : geometries[k].geometry.geom_type = "LineString"
    THEN [raised |-> TRUE, ret |-> None]
    ELSE [raised |-> FALSE, ret |-> PyList(<<>>)]

\* the threshold test on the area of the overlap
overlap_area_passes_inclusive(overlap_area, tolerance) == overlap_area >= tolerance

overlap_area_passes(overlap_area, tolerance) == overlap_area > tolerance

\* check_overlaps(tolerance); the intersection is computed outside any try
check_overlaps(tolerance) ==
    LET reached(p) == overlaps(geometries[p[1]].geometry, geometries[p[2]].geometry)
        hit(p) == /\ reached(p)
                  /\ overlap_area_passes(
                        area(intersection(geometries[p[1]].geometry,
                                          geometries[p[2]].geometry)),
                        tolerance)
        ps == SelectSeq(PairsInOrder(1, 2), hit)
        raises(p) == overlay_outcome(geometries[p[1]].geometry,
                                     geometries[p[2]].geometry) = "raise"
    IN  IF \E p \in Pairs : reached(p) /\ raises(p)
        THEN [raised |-> TRUE, ret |-> None]
        ELSE [raised |-> FALSE, ret |-> PyList([n \in 1..Len(ps) |-> PairIssue(ps[n])])]

\* check_containment(): the earlier row against each later row
check_containment ==
    LET hit(p) == contains(geometries[p[1]].geometry, geometries[p[2]].geometry)
        ps == SelectSeq(PairsInOrder(1, 2), hit)
    IN  PyList([n \in 1..Len(ps) |-> PairIssue(ps[n])])

(***************************************************************************)
(* validate_topology.                                                      *)
(***************************************************************************)
CheckNames ==
    <<"intersections", "self_intersections", "gaps", "dangles", "overlaps",
      "containment">>

\* self.config.get('enabled_checks', {}).get(name, True)
enabled(name) == Get(Get(config, "enabled_checks", EmptyDict), name, TRUE)

\* the comprehension that drops the empty results
keep_result_unfiltered(value) == TRUE

keep_result(value) ==
    value # None /\ ((value.py = "list" /\ Len(value.v) > 0) \/ value.py # "list")

filter_results(results) ==
    LET kept == {k \in DOMAIN results : keep_result(results[k])}
    IN  [k \in kept |-> results[k]]

\* the tolerance entries of the configuration
configured_gap_tolerance == Get(Get(config, "tolerances", EmptyDict), "gap", 0)
configured_overlap_tolerance ==
    Get(Get(config, "tolerances", EmptyDict), "overlap", 0)

\* check_gaps() and check_overlaps() are called without argument: the
\* tolerance is the default of the parameter
check_gaps_default_tolerance == 0
check_overlaps_default_tolerance == 0

\* the six blocks of validate_topology in their order; a block that
\* raises ends the call, and nothing is returned
validate_topology(order) ==
    LET on(n) == enabled(CheckNames[n])
        ci == IF on(1) THEN check_intersections(order)
              ELSE [ret |-> None, cache |-> invalid_intersections,
                    evaluated |-> <<>>, cached |-> FALSE]
        gaps == check_gaps(check_gaps_default_tolerance)
        dangles == check_dangles
        ov == check_overlaps(check_overlaps_default_tolerance)
        stopped_at == IF on(4) /\ dangles.raised THEN 4
                      ELSE IF on(5) /\ ov.raised THEN 5
                      ELSE 0
        ran(n) == on(n) /\ (stopped_at = 0 \/ n <= stopped_at)
        results ==
            (IF on(1) THEN "intersections" :> ci.ret ELSE EmptyDict)
            @@ (IF on(2) THEN "self_intersections" :> check_self_intersections
                ELSE EmptyDict)
            @@ (IF on(3) /\ gaps # None THEN "gaps" :> gaps ELSE EmptyDict)
            @@ (IF on(4) THEN "dangles" :> dangles.ret ELSE EmptyDict)
            @@ (IF on(5) THEN "overlaps" :> ov.ret ELSE EmptyDict)
            @@ (IF on(6) THEN "containment" :> check_containment ELSE EmptyDict)
    IN  [raised |-> stopped_at # 0,
         executed |-> {CheckNames[n] : n \in {m \in 1..6 : ran(m)}},
         results |-> IF stopped_at # 0 THEN EmptyDict ELSE results,
         ret |-> IF stopped_at # 0 THEN EmptyDict ELSE filter_results(results),
         gaps |-> IF ran(3) THEN gaps ELSE None,
         cache |-> ci.cache,
         evaluated |-> ci.evaluated]

ValidateTopology ==
    \E order \in SindexOrders :
        LET r == validate_topology(order)
        IN  /\ invalid_intersections' = r.cache
            /\ last' = [op |-> "validate_topology", raised |-> r.raised,
                        executed |-> r.executed, results |-> r.results,
                        ret |-> r.ret, gaps |-> r.gaps,
                        evaluated |-> r.evaluated]
            /\ UNCHANGED <<geometries, rules, config, calls>>

(***************************************************************************)
(* Construction: _load_config merges the global settings with the rules    *)
(* of the dataset type, _load_rules returns those rules.                   *)
(***************************************************************************)
Update_keep_first(d1, d2) ==
    [k \in DOMAIN d1 \cup DOMAIN d2 |-> IF k \in DOMAIN d1 THEN d1[k] ELSE d2[k]]

\* d1.update(d2)
Update(d1, d2) ==
    [k \in DOMAIN d1 \cup DOMAIN d2 |-> IF k \in DOMAIN d2 THEN d2[k] ELSE d1[k]]

\* a path that names no file, and a file holding a JSON document
NoFile == [exists |-> FALSE]
JsonFile(full_config) == [exists |-> TRUE, json |-> full_config]

\* the configuration used when the file does not exist
DefaultConfig ==
    [id_attribute |-> Str("id"),
     output_folder_name |-> Str("TopologyTest_Output"),
     enabled_checks |->
        [n \in {"intersections", "self_intersections", "gaps", "dangles",
                "overlaps", "containment"} |-> TRUE],
     tolerances |-> [gap |-> 0, overlap |-> 0],
     allow_intersection_if |-> <<>>,
     allow_overlap_if |-> <<>>]

_load_config(config_file, dataset_type) ==
    IF config_file.exists
    THEN LET full_config == config_file.json
             config0 == Get(full_config, "global_settings", EmptyDict)
             dataset_rules == Get(Get(full_config, "dataset_rules", EmptyDict),
                                  dataset_type, EmptyDict)
         IN  Update(config0, dataset_rules)
    ELSE DefaultConfig

\* `not dataset_rules`: the entry is absent (None) or an empty mapping
falsy(value) == value = None \/ value = EmptyDict

_load_rules(config_file, dataset_type) ==
    IF ~config_file.exists
    THEN [raised |-> "FileNotFoundError", ret |-> None]
    ELSE LET dataset_rules == Get(Get(config_file.json, "dataset_rules", EmptyDict),
                                  dataset_type, None)
         IN  IF falsy(dataset_rules)
             THEN [raised |-> "ValueError", ret |-> None]
             ELSE [raised |-> "none", ret |-> dataset_rules]

\* the inputs of a run: the configuration document and the feature file
DatasetType == "roads"

BridgeCondition == [attribute |-> "type", values |-> <<Str("bridge")>>]

NoIntersectionKey == [allow_overlap_if |-> <<>>]
NoExceptions == [allow_intersection_if |-> <<>>, allow_overlap_if |-> <<>>]
BridgesAllowed ==
    [allow_intersection_if |-> <<BridgeCondition>>, allow_overlap_if |-> <<>>]

CheckNameSet == {CheckNames[n] : n \in 1..6}

OnlyOff(off) == [n \in {off} |-> FALSE]

EnabledChecksInputs ==
    {[n \in CheckNameSet |-> FALSE], [n \in CheckNameSet |-> n # "dangles"],
     OnlyOff("intersections"), OnlyOff("gaps"), OnlyOff("dangles")}

FullConfig(global_settings, dataset_rules) ==
    [global_settings |-> global_settings,
     dataset_rules |-> (DatasetType :> dataset_rules)]

FullConfigs ==
    {FullConfig(EmptyDict, d) : d \in {NoIntersectionKey, NoExceptions, BridgesAllowed}}
    \cup {FullConfig([min_intersection_area |-> a], NoExceptions) : a \in {1, 2}}
    \cup {FullConfig([enabled_checks |-> e], NoExceptions) : e \in EnabledChecksInputs}
    \cup {FullConfig([enabled_checks |-> OnlyOff("dangles"),
                      min_intersection_area |-> 1], BridgesAllowed)}

FeatureAttrs == {EmptyDict, [type |-> Str("bridge")]}
Features ==
    {Feature(g, EmptyDict) : g \in Geoms}
    \cup {Feature(g, a) : g \in {SquareB, RoadV}, a \in FeatureAttrs}
FeatureLists == UNION {[1..n -> Features] : n \in 0..MaxFeatures}

Init ==
    /\ geometries \in FeatureLists
    /\ \E full_config \in FullConfigs :
          /\ config = _load_config(JsonFile(full_config), DatasetType)
          /\ rules = _load_rules(JsonFile(full_config), DatasetType).ret
    /\ invalid_intersections = None
    /\ last = NoCall
    /\ calls = NoCalls

Next ==
    \/ CheckIntersections
    \/ ValidateTopology

Spec == Init /\ [][Next]_vars

(***************************************************************************)
(* The rule evaluator on its own inputs.                                   *)
(***************************************************************************)
InitRules ==
    /\ geometries \in
         {<<Feature(SquareA, a1), Feature(SquareB, a2)>> :
            a1 \in AttrMaps, a2 \in AttrMaps}
    /\ rules \in RuleInputs
    /\ config = EmptyDict
    /\ invalid_intersections = None
    /\ last = NoCall
    /\ calls = NoCalls

\* a call of _is_valid_intersection on the attributes of two features
IsValidIntersectionCall ==
    \E i \in 1..Len(geometries), j \in 1..Len(geometries) :
        /\ i # j
        /\ last' = [op |-> "_is_valid_intersection",
                    attr1 |-> geometries[i].attributes,
                    attr2 |-> geometries[j].attributes,
                    ret |-> _is_valid_intersection(geometries[i].attributes,
                                                   geometries[j].attributes)]
        /\ UNCHANGED <<geometries, rules, config, invalid_intersections, calls>>

NextRules == IsValidIntersectionCall

SpecRules == InitRules /\ [][NextRules]_vars

(***************************************************************************)
(* report_summary, and every operation of the validator called on its own. *)
(***************************************************************************)
\* the report built from what validate_topology returned; len(issues) of
\* a kept result: a list has a length, a geometry has none (TypeError)
report_of(r) ==
    LET no_len == {k \in DOMAIN r.ret : r.ret[k].py # "list"}
        raised == r.raised \/ no_len # {}
    IN  [raised |-> raised,
         ret |-> IF raised THEN None
                 ELSE [dataset_type |-> DatasetType,
                       total_geometries |-> NumFeatures,
                       issues_found |-> [k \in DOMAIN r.ret |-> Len(r.ret[k].v)]],
         cache |-> r.cache]

\* report_summary(): one call of validate_topology, then the report
report_summary(order) ==
    CHOOSE report \in {report_of(results) : results \in {validate_topology(order)}} :
        TRUE

ReportSummary ==
    \E order \in SindexOrders :
        LET r == report_summary(order)
        IN  /\ invalid_intersections' = r.cache
            /\ last' = [op |-> "report_summary", raised |-> r.raised,
                        ret |-> r.ret]
            /\ UNCHANGED <<geometries, rules, config, calls>>

CheckSelfIntersections ==
    /\ last' = [op |-> "check_self_intersections", raised |-> FALSE,
                ret |-> check_self_intersections]
    /\ UNCHANGED <<geometries, rules, config, invalid_intersections, calls>>

Tolerances == 0..MaxTolerance

CheckGaps ==
    \E tolerance \in Tolerances :
        /\ last' = [op |-> "check_gaps", tolerance |-> tolerance,
                    raised |-> FALSE, ret |-> check_gaps(tolerance)]
        /\ UNCHANGED <<geometries, rules, config, invalid_intersections, calls>>

CheckDangles ==
    /\ last' = [op |-> "check_dangles", raised |-> check_dangles.raised,
                ret |-> check_dangles.ret]
    /\ UNCHANGED <<geometries, rules, config, invalid_intersections, calls>>

CheckOverlaps ==
    \E tolerance \in Tolerances :
        LET r == check_overlaps(tolerance)
        IN  /\ last' = [op |-> "check_overlaps", tolerance |-> tolerance,
                        raised |-> r.raised, ret |-> r.ret]
            /\ UNCHANGED <<geometries, rules, config, invalid_intersections, calls>>

\* a check_containment that reverses the collection it walks in place
CheckContainment_in_place ==
    /\ last' = [op |-> "check_containment", raised |-> FALSE,
                ret |-> check_containment]
    /\ geometries' = [n \in 1..NumFeatures |-> geometries[NumFeatures + 1 - n]]
    /\ UNCHANGED <<rules, config, invalid_intersections, calls>>

CheckContainment ==
    /\ last' = [op |-> "check_containment", raised |-> FALSE,
                ret |-> check_containment]
    /\ UNCHANGED <<geometries, rules, config, invalid_intersections, calls>>

\* the documents and feature files of these runs
OverlapBridgesAllowed ==
    [allow_intersection_if |-> <<>>, allow_overlap_if |-> <<BridgeCondition>>]

AllOff == [n \in CheckNameSet |-> FALSE]

CheckConfigs ==
    {FullConfig(EmptyDict, NoExceptions),
     FullConfig([enabled_checks |-> AllOff], NoExceptions),
     FullConfig(EmptyDict, OverlapBridgesAllowed)}

CheckFeatures ==
    {Feature(g, EmptyDict) : g \in {SquareA, SquareB, SquareD, RoadH, Twisted("raise")}}
    \cup {Feature(SquareB, [type |-> Str("bridge")])}

CheckFeatureLists == UNION {[1..n -> CheckFeatures] : n \in 0..MaxFeatures}

InitChecks ==
    /\ geometries \in CheckFeatureLists
    /\ \E full_config \in CheckConfigs :
          /\ config = _load_config(JsonFile(full_config), DatasetType)
          /\ rules = _load_rules(JsonFile(full_config), DatasetType).ret
    /\ invalid_intersections = None
    /\ last = NoCall
    /\ calls = NoCalls

NextChecks ==
    \/ CheckIntersections
    \/ CheckSelfIntersections
    \/ CheckGaps
    \/ CheckDangles
    \/ CheckOverlaps
    \/ CheckContainment
    \/ ValidateTopology
    \/ ReportSummary

SpecChecks == InitChecks /\ [][NextChecks]_vars

(***************************************************************************)
(* Construction.  Before __init__ has completed there is no validator:     *)
(* its fields hold nothing.  An error raised inside __init__ leaves it so. *)
(***************************************************************************)
Constructed == rules # None

\* the rows of the feature file, in file order, as (geom, attributes)
_load_geometries(geojson_file) ==
    [n \in 1..Len(geojson_file) |->
        Feature(geojson_file[n].geometry, geojson_file[n].attributes)]

\* __init__: _load_config, then _load_rules, then _load_geometries
__init__(geojson_file, dataset_type, config_file) ==
    LET loaded == _load_rules(config_file, dataset_type)
    IN  [raised |-> loaded.raised,
         config |-> _load_config(config_file, dataset_type),
         rules |-> loaded.ret,
         geometries |-> _load_geometries(geojson_file),
         invalid_intersections |-> None]

\* configuration files: none, and documents with and without an entry
\* for the dataset type, with and without keys defined in both layers
ShadowedArea ==
    [allow_intersection_if |-> <<>>, allow_overlap_if |-> <<>>,
     min_intersection_area |-> 2]
ShadowedChecks ==
    [allow_intersection_if |-> <<>>, allow_overlap_if |-> <<>>,
     enabled_checks |-> OnlyOff("gaps")]

Documents ==
    {FullConfig(EmptyDict, NoExceptions),
     FullConfig([min_intersection_area |-> 1,
                 enabled_checks |-> OnlyOff("dangles")], ShadowedArea),
     FullConfig([enabled_checks |-> OnlyOff("dangles")], ShadowedChecks),
     [dataset_rules |-> (DatasetType :> BridgesAllowed)],
     [global_settings |-> EmptyDict,
      dataset_rules |-> ("buildings" :> NoExceptions)],
     [global_settings |-> [min_intersection_area |-> 1]],
     FullConfig([min_intersection_area |-> 1], EmptyDict)}

ConfigFiles == {NoFile} \cup {JsonFile(d) : d \in Documents}

InitConstruct ==
    /\ geometries = None
    /\ rules = None
    /\ config = None
    /\ invalid_intersections = None
    /\ last = NoCall
    /\ calls = NoCalls

Construct ==
    /\ ~Constructed
    /\ \E config_file \in ConfigFiles, geojson_file \in FeatureLists :
          LET r == __init__(geojson_file, DatasetType, config_file)
          IN  /\ last' = [op |-> "__init__", raised |-> r.raised,
                          config_file |-> config_file]
              /\ IF r.raised # "none"
                 THEN UNCHANGED <<geometries, rules, config, invalid_intersections, calls>>
                 ELSE /\ config' = r.config
                      /\ rules' = r.rules
                      /\ geometries' = r.geometries
                      /\ invalid_intersections' = r.invalid_intersections
                      /\ UNCHANGED calls

\* a check runs on a validator object
ValidateConstructed == Constructed /\ ValidateTopology

NextConstruct ==
    \/ Construct
    \/ ValidateConstructed

SpecConstruct == InitConstruct /\ [][NextConstruct]_vars

(***************************************************************************)
(* check_intersections called by several workers on one validator.  The    *)
(* test of the cache (line 131) and the assignment of the computed list    *)
(* (line 158) are separate steps of a call, with no lock between them.     *)
(***************************************************************************)
Workers == 1..MaxWorkers

Idle == [pc |-> "idle"]

InitWorkers ==
    /\ geometries \in CheckFeatureLists
    /\ \E full_config \in CheckConfigs :
          /\ config = _load_config(JsonFile(full_config), DatasetType)
          /\ rules = _load_rules(JsonFile(full_config), DatasetType).ret
    /\ invalid_intersections = None
    /\ last = NoCall
    /\ calls = [w \in Workers |-> Idle]

\* lines 131-132: the worker enters check_intersections and tests the cache
EnterCheckIntersections(w) ==
    /\ calls[w].pc = "idle"
    /\ calls' = [calls EXCEPT ![w] =
                    IF cache_hit
                    THEN [pc |-> "returned", computed |-> FALSE,
                          ret |-> invalid_intersections]
                    ELSE [pc |-> "computing"]]
    /\ UNCHANGED <<geometries, rules, config, invalid_intersections, last>>

\* lines 134-159: the worker computes the list, assigns it to the field
\* and returns it
FinishCheckIntersections(w) ==
    /\ calls[w].pc = "computing"
    /\ \E order \in SindexOrders :
          LET r == row_loop(1, order, [issues |-> <<>>, evaluated |-> <<>>])
          IN  /\ invalid_intersections' = PyList(r.issues)
              /\ calls' = [calls EXCEPT ![w] =
                              [pc |-> "returned", computed |-> TRUE,
                               ret |-> PyList(r.issues)]]
    /\ UNCHANGED <<geometries, rules, config, last>>

NextWorkers ==
    \E w \in Workers :
        \/ EnterCheckIntersections(w)
        \/ FinishCheckIntersections(w)

SpecWorkers == InitWorkers /\ [][NextWorkers]_vars

(***************************************************************************)
(* One validator whose public fields config and rules are changed by the   *)
(* client between calls of check_intersections.                            *)
(***************************************************************************)
Areas == 0..MaxArea

RuleSets == {NoExceptions, BridgesAllowed}

InitLifetime ==
    /\ geometries \in CheckFeatureLists
    /\ config = _load_config(JsonFile(FullConfig(EmptyDict, NoExceptions)), DatasetType)
    /\ rules = _load_rules(JsonFile(FullConfig(EmptyDict, NoExceptions)), DatasetType).ret
    /\ invalid_intersections = None
    /\ last = NoCall
    /\ calls = NoCalls

\* validator.config["min_intersection_area"] = a
SetMinIntersectionArea ==
    \E a \in Areas :
        /\ config' = Update(config, [min_intersection_area |-> a])
        /\ UNCHANGED <<geometries, rules, invalid_intersections, last, calls>>

\* validator.rules = r
SetRules ==
    \E r \in RuleSets :
        /\ rules' = r
        /\ UNCHANGED <<geometries, config, invalid_intersections, last, calls>>

NextLifetime ==
    \/ CheckIntersections
    \/ SetMinIntersectionArea
    \/ SetRules

SpecLifetime == InitLifetime /\ [][NextLifetime]_vars

(***************************************************************************)
(* validate_topology with its six blocks run one at a time in any order.   *)
(* The call in progress keeps the names of the blocks already run, the     *)
(* results mapping built so far and whether a block has raised.            *)
(***************************************************************************)
\* results[name] = value, wrongly kept only for the first block that stores
store_first_only(results, name, value) ==
    IF results = EmptyDict THEN name :> value ELSE results

\* results[name] = value
store(results, name, value) == (name :> value) @@ results

\* the body of the block of one check: whether it raises, the results
\* mapping and the cache afterwards
run_block(name, order, results) ==
    LET same == [raised |-> FALSE, results |-> results,
                 cache |-> invalid_intersections]
        with(value) == [same EXCEPT !.results = store(results, name, value)]
        failed == [same EXCEPT !.raised = TRUE]
    IN  CASE ~enabled(name) -> same
          [] name = "intersections" ->
                LET r == check_intersections(order)
                IN  [with(r.ret) EXCEPT !.cache = r.cache]
          [] name = "self_intersections" -> with(check_self_intersections)
          [] name = "gaps" ->
                LET gaps == check_gaps(check_gaps_default_tolerance)
                IN  IF gaps # None THEN with(gaps) ELSE same
          [] name = "dangles" ->
                IF check_dangles.raised THEN failed ELSE with(check_dangles.ret)
          [] name = "overlaps" ->
                LET ov == check_overlaps(check_overlaps_default_tolerance)
                IN  IF ov.raised THEN failed ELSE with(ov.ret)
          [] OTHER -> with(check_containment)

InitOrder ==
    /\ geometries \in CheckFeatureLists
    /\ \E full_config \in CheckConfigs \cup {FullConfig([enabled_checks |-> OnlyOff("dangles")], NoExceptions)} :
          /\ config = _load_config(JsonFile(full_config), DatasetType)
          /\ rules = _load_rules(JsonFile(full_config), DatasetType).ret
    /\ invalid_intersections = None
    /\ last = NoCall
    /\ calls = NoCalls

\* line 309: the call starts with an empty mapping; reference is what the
\* blocks give in the order of the source
BeginValidate ==
    /\ calls = NoCalls
    /\ last = NoCall
    /\ \E order \in SindexOrders :
          calls' = [done |-> {}, results |-> EmptyDict, raised |-> FALSE,
                    order |-> order,
                    reference |-> CHOOSE ref \in
                        {[raised |-> r.raised, ret |-> r.ret] :
                            r \in {validate_topology(order)}} : TRUE]
    /\ UNCHANGED <<geometries, rules, config, invalid_intersections, last>>

\* lines 311-329: one block that has not run yet
RunBlock ==
    /\ calls # NoCalls
    /\ ~calls.raised
    /\ \E name \in CheckNameSet \ calls.done :
          LET r == CHOOSE b \in {run_block(name, calls.order, calls.results)} : TRUE
          IN  /\ calls' = [calls EXCEPT !.done = @ \cup {name},
                                        !.results = r.results,
                                        !.raised = r.raised]
              /\ invalid_intersections' = r.cache
    /\ UNCHANGED <<geometries, rules, config, last>>

\* lines 331-334: all blocks have run, or one has raised
FinishValidate ==
    /\ calls # NoCalls
    /\ calls.raised \/ calls.done = CheckNameSet
    /\ last' = [op |-> "validate_topology_blocks", raised |-> calls.raised,
                ret |-> IF calls.raised THEN EmptyDict
                        ELSE filter_results(calls.results),
                reference |-> calls.reference]
    /\ calls' = NoCalls
    /\ UNCHANGED <<geometries, rules, config, invalid_intersections>>

NextOrder ==
    \/ BeginValidate
    \/ RunBlock
    \/ FinishValidate

SpecOrder == InitOrder /\ [][NextOrder]_vars

(***************************************************************************)
(* check_intersections over collections in which an operand makes the      *)
(* overlay raise or return an invalid geometry, next to pairs that are     *)
(* reported.                                                               *)
(***************************************************************************)
RecoveryFeatures ==
    {Feature(g, EmptyDict) :
        g \in {SquareA, SquareB, Twisted("raise"), Twisted("invalid")}}

RecoveryFeatureLists ==
    UNION {[1..n -> RecoveryFeatures] : n \in 0..(MaxFeatures + 1)}

InitRecovery ==
    /\ geometries \in RecoveryFeatureLists
    /\ config = _load_config(JsonFile(FullConfig(EmptyDict, NoExceptions)), DatasetType)
    /\ rules = _load_rules(JsonFile(FullConfig(EmptyDict, NoExceptions)), DatasetType).ret
    /\ invalid_intersections = None
    /\ last = NoCall
    /\ calls = NoCalls

SpecRecovery == InitRecovery /\ [][CheckIntersections]_vars

(***************************************************************************)
(* check_gaps over collections with Polygon, MultiPolygon and LineString   *)
(* features, a polygon with a hole and a polygon the engine fails on.      *)
(***************************************************************************)
GapFeatures ==
    {Feature(g, EmptyDict) :
        g \in {SquareA, SquareB, RoadH, MultiSquare, HoledSquare, Twisted("raise")}}

GapFeatureLists == UNION {[1..n -> GapFeatures] : n \in 0..MaxFeatures}

InitGaps ==
    /\ geometries \in GapFeatureLists
    /\ config = _load_config(JsonFile(FullConfig(EmptyDict, NoExceptions)), DatasetType)
    /\ rules = _load_rules(JsonFile(FullConfig(EmptyDict, NoExceptions)), DatasetType).ret
    /\ invalid_intersections = None
    /\ last = NoCall
    /\ calls = NoCalls

SpecGaps == InitGaps /\ [][CheckGaps]_vars

(***************************************************************************)
(* validate_topology under configurations that set tolerances.gap and      *)
(* tolerances.overlap.                                                     *)
(***************************************************************************)
ToleranceConfigs ==
    {FullConfig([tolerances |-> [gap |-> g, overlap |-> o]], NoExceptions) :
        g \in Tolerances, o \in Tolerances}

InitTolerances ==
    /\ geometries \in CheckFeatureLists
    /\ \E full_config \in ToleranceConfigs :
          /\ config = _load_config(JsonFile(full_config), DatasetType)
          /\ rules = _load_rules(JsonFile(full_config), DatasetType).ret
    /\ invalid_intersections = None
    /\ last = NoCall
    /\ calls = NoCalls

SpecTolerances == InitTolerances /\ [][ValidateTopology]_vars

(***************************************************************************)
(* check_overlaps over collections with lines that partly coincide, points *)
(* and squares.                                                            *)
(***************************************************************************)
LineFeatures ==
    {Feature(g, EmptyDict) : g \in {RoadH, RoadH2, RoadV, PointP, SquareA, SquareB}}

LineFeatureLists == UNION {[1..n -> LineFeatures] : n \in 0..MaxFeatures}

InitLines ==
    /\ geometries \in LineFeatureLists
    /\ config = _load_config(JsonFile(FullConfig(EmptyDict, NoExceptions)), DatasetType)
    /\ rules = _load_rules(JsonFile(FullConfig(EmptyDict, NoExceptions)), DatasetType).ret
    /\ invalid_intersections = None
    /\ last = NoCall
    /\ calls = NoCalls

SpecLines == InitLines /\ [][CheckOverlaps]_vars

(***************************************************************************)
(* Properties of the rule evaluator (under SpecRules).                     *)
(***************************************************************************)
RuleCall == last.op = "_is_valid_intersection"

conditions_of_rules == Get(rules, "allow_intersection_if", <<>>)

Reverse(seq) == [n \in 1..Len(seq) |-> seq[Len(seq) + 1 - n]]

\* the feature has a value for the condition's attribute, and that value
\* is one of the condition's allowed values
ConditionSatisfiedBy(attrs, condition) ==
    /\ condition.attribute \in DOMAIN attrs
    /\ attrs[condition.attribute]
         \in {condition.values[n] : n \in 1..Len(condition.values)}

SomeConditionSatisfied(conditions, attr1, attr2) ==
    \E k \in 1..Len(conditions) :
        \/ ConditionSatisfiedBy(attr1, conditions[k])
        \/ ConditionSatisfiedBy(attr2, conditions[k])

\* C1: with an empty or absent allow_intersection_if list the rule
\* evaluator returns false for every pair of attribute mappings.
C1_EmptyConditionsAllowNothing ==
    (RuleCall /\ conditions_of_rules = <<>>) => last.ret = FALSE

C1_Witness ==
    /\ RuleCall
    /\ "allow_intersection_if" \notin DOMAIN rules
    /\ Get(last.attr1, "type", None) = Str("bridge")
    /\ last.ret = FALSE

\* C2: with a non-empty condition list the result is true if and only if
\* some condition's attribute has, in attr1 or in attr2, a value that is
\* one of the condition's allowed values; the result is the same with the
\* conditions in reverse order and with attr1 and attr2 swapped.
C2_TrueIffSomeConditionSatisfied ==
    (RuleCall /\ conditions_of_rules # <<>>) =>
        /\ last.ret = SomeConditionSatisfied(conditions_of_rules,
                                             last.attr1, last.attr2)
        /\ last.ret = _is_valid_intersection(last.attr2, last.attr1)
        /\ last.ret = condition_loop(Reverse(conditions_of_rules), 1,
                                     last.attr1, last.attr2)

\* C3: a feature without the attribute of a condition never satisfies it,
\* whatever the allowed values; when both features lack the attribute of
\* every condition the result is false.
C3_MissingAttributeNeverMatches ==
    (/\ RuleCall
     /\ \A k \in 1..Len(conditions_of_rules) :
           /\ conditions_of_rules[k].attribute \notin DOMAIN last.attr1
           /\ conditions_of_rules[k].attribute \notin DOMAIN last.attr2)
    => last.ret = FALSE

(***************************************************************************)
(* Properties of check_intersections (under Spec).                         *)
(***************************************************************************)
Computed == last.op = "check_intersections" /\ ~last.cached

HasIssue(list, p) ==
    \E n \in 1..Len(list) : list[n].ref1 = p[1] /\ list[n].ref2 = p[2]

Geom(k) == geometries[k].geometry
Attrs(k) == geometries[k].attributes

\* C4: in one computation no pair is evaluated in both orders, no feature
\* is evaluated against itself, and the result holds at most one issue
\* for each unordered pair.
C4_EachPairAtMostOnce ==
    (last.op \in {"check_intersections", "validate_topology"}) =>
        LET ev == last.evaluated
            list == IF invalid_intersections = None THEN <<>>
                    ELSE invalid_intersections.v
        IN  /\ \A m \in 1..Len(ev) : ev[m][1] # ev[m][2]
            /\ \A m, n \in 1..Len(ev) :
                   m # n => /\ ev[m] # ev[n]
                            /\ ev[m] # <<ev[n][2], ev[n][1]>>
            /\ \A m, n \in 1..Len(list) :
                   m # n => {list[m].ref1, list[m].ref2}
                              # {list[n].ref1, list[n].ref2}
            /\ \A m \in 1..Len(list) : list[m].ref1 # list[m].ref2

C4_Witness ==
    /\ Computed
    /\ Len(last.evaluated) >= 1
    /\ Len(last.ret.v) >= 1

\* the conditions under which the pair p is to be reported
Reportable(p) ==
    /\ intersects(Geom(p[1]), Geom(p[2]))
    /\ ~_is_valid_intersection(Attrs(p[1]), Attrs(p[2]))
    /\ overlay_outcome(Geom(p[1]), Geom(p[2])) = "ok"
    /\ area(intersection(Geom(p[1]), Geom(p[2])))
         >= Get(config, "min_intersection_area", 0)

\* C5: on first computation the result holds an issue (geom_i, geom_j,
\* intersection, attrs_i, attrs_j) for a pair i < j if and only if the
\* two geometries intersect, the rule evaluator returns false, the
\* intersection geometry is valid and its area is at least
\* min_intersection_area (0 when the key is absent).
C5_IssueIffReportable ==
    Computed =>
        /\ \A p \in Pairs : HasIssue(last.ret.v, p) <=> Reportable(p)
        /\ \A n \in 1..Len(last.ret.v) :
               LET issue == last.ret.v[n]
               IN  /\ <<issue.ref1, issue.ref2>> \in Pairs
                   /\ issue.geom1 = Geom(issue.ref1)
                   /\ issue.geom2 = Geom(issue.ref2)
                   /\ issue.attr1 = Attrs(issue.ref1)
                   /\ issue.attr2 = Attrs(issue.ref2)
                   /\ issue.inter_geom = intersection(issue.geom1, issue.geom2)

\* a pair whose intersection has exactly the threshold area is reported
C5_Witness ==
    /\ Computed
    /\ Get(config, "min_intersection_area", 0) = 1
    /\ Len(last.ret.v) = 1
    /\ area(last.ret.v[1].inter_geom) = 1

\* C6 as stated: with an empty allow_intersection_if list, under every
\* configuration, every pair of features that intersect is in an issue.
C6_EveryIntersectingPairReported ==
    (Computed /\ conditions_of_rules = <<>>) =>
        \A p \in Pairs :
            intersects(Geom(p[1]), Geom(p[2])) => HasIssue(last.ret.v, p)

\* C6 as amended: with an empty allow_intersection_if list, every pair of
\* features that intersect, whose intersection the engine computes as a
\* valid geometry of area at least min_intersection_area, is in an issue.
C6_EveryReportablePairReported ==
    (Computed /\ conditions_of_rules = <<>>) =>
        \A p \in Pairs :
            (/\ intersects(Geom(p[1]), Geom(p[2]))
             /\ overlay_outcome(Geom(p[1]), Geom(p[2])) = "ok"
             /\ area(intersection(Geom(p[1]), Geom(p[2])))
                  >= Get(config, "min_intersection_area", 0))
            => HasIssue(last.ret.v, p)

C6_Witness ==
    /\ Computed
    /\ conditions_of_rules = <<>>
    /\ NumFeatures = 2
    /\ Attrs(1) = [type |-> Str("bridge")]
    /\ HasIssue(last.ret.v, <<1, 2>>)

\* C7: once the cache holds a list it never changes, and every later call
\* of check_intersections returns that list and evaluates no pair, also
\* when the list is empty.
C7_LaterCallsReturnTheCache ==
    [][invalid_intersections # None =>
         /\ invalid_intersections' = invalid_intersections
         /\ last'.op = "check_intersections" =>
                /\ last'.ret = invalid_intersections
                /\ last'.evaluated = <<>>]_vars

\* a later call, answered from an empty cached list although some pair
\* was there to be evaluated
C7_Witness ==
    /\ last.op = "check_intersections"
    /\ last.cached
    /\ last.ret = PyList(<<>>)
    /\ invalid_intersections = PyList(<<>>)
    /\ \E p \in Pairs : intersects(Geom(p[1]), Geom(p[2]))

(***************************************************************************)
(* Properties of validate_topology (under Spec).                           *)
(***************************************************************************)
Validated == last.op = "validate_topology"

\* C8: validate_topology executes a check if and only if it is enabled
\* (enabled when absent from the mapping); a disabled check is never
\* executed and is not in the result.
C8_ExecutedIffEnabled ==
    Validated =>
        \A name \in CheckNameSet :
            /\ name \in last.executed <=> enabled(name)
            /\ ~enabled(name) => name \notin DOMAIN last.ret

\* C9: in every mapping validate_topology returns, each key but 'gaps'
\* maps to a non-empty list, each enabled list-valued check that produced
\* an issue is present with what it produced, and 'gaps' is present if
\* and only if the gap check was enabled and returned a region.
C9_ReturnedMappingShape ==
    (Validated /\ ~last.raised) =>
        /\ \A k \in DOMAIN last.ret \ {"gaps"} :
               last.ret[k].py = "list" /\ Len(last.ret[k].v) > 0
        /\ \A k \in CheckNameSet \ {"gaps"} :
               (enabled(k) /\ Len(last.results[k].v) > 0) =>
                   (k \in DOMAIN last.ret /\ last.ret[k] = last.results[k])
        /\ "gaps" \in DOMAIN last.ret <=> (enabled("gaps") /\ last.gaps # None)
        /\ DOMAIN last.ret \subseteq CheckNameSet

C9_Witness ==
    /\ Validated
    /\ ~last.raised
    /\ "intersections" \in DOMAIN last.ret
    /\ "containment" \in DOMAIN last.results
    /\ "containment" \notin DOMAIN last.ret

\* the check raises when validate_topology runs it
Fails(name) ==
    \/ name = "dangles" /\ check_dangles.raised
    \/ name = "overlaps" /\ check_overlaps(0).raised

\* C10: when a check raises, validate_topology still returns a mapping,
\* without that check, and every other enabled check has run and has its
\* entry.
C10_FailingCheckIsIsolated ==
    Validated =>
        /\ ~last.raised
        /\ \A name \in CheckNameSet :
               (enabled(name) /\ ~Fails(name)) => name \in last.executed
        /\ \A name \in CheckNameSet :
               Fails(name) => name \notin DOMAIN last.ret

(***************************************************************************)
(* Absent data (under SpecChecks).                                         *)
(***************************************************************************)
NoPolygons ==
    \A k \in Positions : Geom(k).geom_type # "Polygon"

NothingEnabled == \A name \in CheckNameSet : ~enabled(name)

\* the result of the last call is the empty result of its operation, and
\* the call did not raise
EmptyOutcome ==
    CASE last.op = "check_intersections" -> last.ret = PyList(<<>>)
      [] last.op = "check_gaps" -> ~last.raised /\ last.ret = None
      [] last.op = "validate_topology" -> ~last.raised /\ last.ret = EmptyDict
      [] last.op = "report_summary" ->
            /\ ~last.raised
            /\ last.ret.total_geometries = 0
            /\ last.ret.issues_found = EmptyDict
      [] OTHER -> ~last.raised /\ last.ret = PyList(<<>>)

Initialized == last.op = "__init__"

\* the rule source has an entry for the dataset type
HasEntry(config_file) ==
    /\ config_file.exists
    /\ DatasetType \in DOMAIN Get(config_file.json, "dataset_rules", EmptyDict)

\* C12: construction fails with FileNotFoundError when the rule source
\* does not exist and with ValueError when it has no entry for the dataset
\* type, and then there is no validator; when the source exists and has
\* an entry for the dataset type, construction succeeds.
C12_ConstructionFailsOnlyWithoutRules ==
    Initialized =>
        LET config_file == last.config_file
        IN  /\ ~config_file.exists =>
                  (last.raised = "FileNotFoundError" /\ ~Constructed)
            /\ (config_file.exists /\ ~HasEntry(config_file)) =>
                  (last.raised = "ValueError" /\ ~Constructed)
            /\ HasEntry(config_file) =>
                  (last.raised = "none" /\ Constructed)

\* C13: the merged configuration holds every key of the two layers, with
\* the dataset type's value where its section defines the key and the
\* global_settings value otherwise.
C13_DatasetKeysShadowGlobalKeys ==
    (Initialized /\ last.raised = "none") =>
        LET full_config == last.config_file.json
            global == Get(full_config, "global_settings", EmptyDict)
            dataset == full_config.dataset_rules[DatasetType]
        IN  /\ DOMAIN config = DOMAIN global \cup DOMAIN dataset
            /\ \A k \in DOMAIN config :
                   config[k] = IF k \in DOMAIN dataset THEN dataset[k]
                               ELSE global[k]

\* a key defined in both layers with different values
C13_Witness ==
    /\ Initialized
    /\ last.raised = "none"
    /\ Get(last.config_file.json, "global_settings", EmptyDict)
         = [min_intersection_area |-> 1, enabled_checks |-> OnlyOff("dangles")]
    /\ config.min_intersection_area = 2
    /\ config.enabled_checks = OnlyOff("dangles")

(***************************************************************************)
(* The dangle check and the containment check (under SpecChecks).          *)
(***************************************************************************)
IsLine(k) == Geom(k).geom_type = "LineString"

\* the two endpoints of a line: geom.coords[0] and geom.coords[-1]
Endpoints(g) == {<<g.x1, g.y1>>, <<g.x2, g.y2>>}

\* the point lies on the geometry
PointOn(pt, g) ==
    /\ g.x1 <= pt[1] /\ pt[1] <= g.x2
    /\ g.y1 <= pt[2] /\ pt[2] <= g.y2

\* the point touches some line feature other than feature k
TouchesOtherLine(pt, k) ==
    \E j \in Positions \ {k} : IsLine(j) /\ PointOn(pt, Geom(j))

Dangling(k) ==
    IsLine(k) /\ \E pt \in Endpoints(Geom(k)) : ~TouchesOtherLine(pt, k)

\* every feature is a line and every endpoint is an endpoint of another line
ClosedLoop ==
    /\ NumFeatures >= 2
    /\ \A k \in Positions :
          /\ IsLine(k)
          /\ \A pt \in Endpoints(Geom(k)) :
                \E j \in Positions \ {k} : pt \in Endpoints(Geom(j))

IsolatedLine == NumFeatures = 1 /\ IsLine(1)

DanglesCalled == last.op = "check_dangles"

\* C14: check_dangles returns no feature for a closed loop of connected
\* lines and exactly one issue, the line, for a single isolated line.
C14_LoopHasNoDangleIsolatedLineHasOne ==
    DanglesCalled =>
        /\ ClosedLoop => (~last.raised /\ last.ret = PyList(<<>>))
        /\ IsolatedLine =>
              (~last.raised /\ last.ret = PyList(<<SingleIssue(1)>>))

\* C15: a line feature is in the result of check_dangles if and only if
\* one of its endpoints does not touch any other line feature, and it is
\* there once.
C15_DangleIffAnEndpointIsFree ==
    DanglesCalled =>
        /\ ~last.raised
        /\ \A k \in Positions :
              Cardinality({n \in 1..Len(last.ret.v) : last.ret.v[n].ref = k})
                = IF Dangling(k) THEN 1 ELSE 0

HasPairIssue(list, i, j) ==
    \E n \in 1..Len(list) : {list[n].ref1, list[n].ref2} = {i, j}

\* two valid geometries, one of which contains the other
OneContainsTheOther(p) ==
    /\ Geom(p[1]).is_valid /\ Geom(p[2]).is_valid
    /\ \/ contains(Geom(p[1]), Geom(p[2]))
       \/ contains(Geom(p[2]), Geom(p[1]))

\* C16: for every pair of features of which one contains the other,
\* check_containment has exactly one issue, whichever of the two comes
\* first, and check_overlaps has none.
C16_ContainmentWhateverTheOrder ==
    /\ last.op = "check_containment" =>
          \A p \in Pairs :
              OneContainsTheOther(p) =>
                  Cardinality({n \in 1..Len(last.ret.v) :
                                 {last.ret.v[n].ref1, last.ret.v[n].ref2}
                                   = {p[1], p[2]}}) = 1
    /\ (last.op = "check_overlaps" /\ ~last.raised) =>
          \A p \in Pairs :
              OneContainsTheOther(p) => ~HasPairIssue(last.ret.v, p[1], p[2])

(***************************************************************************)
(* The overlap check and the gap check (under SpecChecks).                 *)
(***************************************************************************)
OverlapsReturned == last.op = "check_overlaps" /\ ~last.raised

OverlapArea(p) == area(intersection(Geom(p[1]), Geom(p[2])))

\* C17: check_overlaps(t) has an issue (geom_i, geom_j, attrs_i, attrs_j)
\* for a pair i < j if and only if the two geometries overlap and the area
\* of their intersection is greater than t, not equal to it; no pair has
\* two issues and no issue pairs a feature with itself.
C17_OverlapIssueIffAreaAboveTolerance ==
    OverlapsReturned =>
        LET list == last.ret.v
        IN  /\ \A p \in Pairs :
                   HasIssue(list, p) <=>
                       /\ overlaps(Geom(p[1]), Geom(p[2]))
                       /\ OverlapArea(p) > last.tolerance
            /\ \A n \in 1..Len(list) :
                   /\ list[n].ref1 < list[n].ref2
                   /\ list[n] = PairIssue(<<list[n].ref1, list[n].ref2>>)
            /\ \A m, n \in 1..Len(list) :
                   (list[m].ref1 = list[n].ref1 /\ list[m].ref2 = list[n].ref2)
                       => m = n

\* a pair whose overlap has exactly the tolerance as its area is left out
C17_Witness ==
    /\ OverlapsReturned
    /\ last.tolerance = 1
    /\ \E p \in Pairs :
          /\ overlaps(Geom(p[1]), Geom(p[2]))
          /\ OverlapArea(p) = 1
          /\ ~HasIssue(last.ret.v, p)

\* the rule evaluator applied to the allow_overlap_if list
OverlapAllowed(attr1, attr2) ==
    LET conditions == Get(rules, "allow_overlap_if", <<>>)
    IN  conditions # <<>> /\ condition_loop(conditions, 1, attr1, attr2)

\* C18: an overlapping pair for which a condition of allow_overlap_if is
\* satisfied by one of the two features is not in the result of
\* check_overlaps.
C18_AllowedOverlapsAreNotEmitted ==
    OverlapsReturned =>
        \A p \in Pairs :
            OverlapAllowed(Attrs(p[1]), Attrs(p[2]))
                => ~HasIssue(last.ret.v, p)

PolygonPositions == {k \in Positions : Geom(k).geom_type = "Polygon"}

Covered == UNION {CellsOf(Geom(k)) : k \in PolygonPositions}

\* an uncovered cell with covered cells to its left, to its right, below
\* and above it
UncoveredInterior ==
    LET xs == {c[1] : c \in Covered}
        ys == {c[2] : c \in Covered}
    IN  {c \in (xs \X ys) \ Covered :
            /\ \E d \in Covered : d[2] = c[2] /\ d[1] < c[1]
            /\ \E d \in Covered : d[2] = c[2] /\ d[1] > c[1]
            /\ \E d \in Covered : d[1] = c[1] /\ d[2] < c[2]
            /\ \E d \in Covered : d[1] = c[1] /\ d[2] > c[2]}

\* C19: for polygons whose union has no uncovered interior region,
\* check_gaps with tolerance 0 returns None.
C19_UnbrokenMosaicHasNoGaps ==
    (last.op = "check_gaps" /\ last.tolerance = 0 /\ UncoveredInterior = {})
        => (~last.raised /\ last.ret = None)

C19_Witness ==
    /\ last.op = "check_gaps"
    /\ last.tolerance = 0
    /\ Cardinality(PolygonPositions) >= 2
    /\ \A k \in PolygonPositions : Geom(k).is_valid
    /\ UncoveredInterior = {}
    /\ last.ret = None

(***************************************************************************)
(* The spatial index (under Spec).                                         *)
(***************************************************************************)
\* the issues of an evaluation of the pairs ps[n], ps[n+1], ... without index
RECURSIVE BruteForce(_, _)
BruteForce(ps, n) ==
    IF n > Len(ps) THEN <<>>
    ELSE evaluate_pair(ps[n][1], ps[n][2]) \o BruteForce(ps, n + 1)

Range(seq) == {seq[n] : n \in 1..Len(seq)}

\* C20: every pair of features that intersect reaches the geometric test
\* as a candidate of the bounding-box query, and the issues of the check
\* are those of the evaluation of all pairs i < j.
C20_IndexHasNoFalseNegatives ==
    Computed =>
        LET brute == BruteForce(PairsInOrder(1, 2), 1)
        IN  /\ \A p \in Pairs :
                   intersects(Geom(p[1]), Geom(p[2]))
                       => p \in Range(last.evaluated)
            /\ Range(last.ret.v) = Range(brute)
            /\ Len(last.ret.v) = Len(brute)

\* two features that share one corner point only, reported
C20_Witness ==
    /\ Computed
    /\ \E p \in Pairs :
          /\ intersection(Geom(p[1]), Geom(p[2])).geom_type = "Point"
          /\ HasIssue(last.ret.v, p)

(***************************************************************************)
(* The cache under several callers (under SpecWorkers).                    *)
(***************************************************************************)
Returned(w) == calls[w].pc = "returned"

\* the calls that assigned a computed list to invalid_intersections
Writers == {w \in Workers : Returned(w) /\ calls[w].computed}

\* C21: over a run of one validator, with check_intersections called by
\* several callers or parallel workers, a computed result is assigned to
\* invalid_intersections at most once and all callers get the same list.
C21_CacheWrittenAtMostOnce ==
    /\ Cardinality(Writers) <= 1
    /\ \A v, w \in Workers :
          (Returned(v) /\ Returned(w)) => calls[v].ret = calls[w].ret

(***************************************************************************)
(* The lifetime of the cache (under SpecLifetime).                         *)
(***************************************************************************)
\* what check_intersections would compute from the present config and rules
Recomputed ==
    {PyList(row_loop(1, order, [issues |-> <<>>, evaluated |-> <<>>]).issues) :
        order \in SindexOrders}

\* C22: once check_intersections has computed a result, no step changes the
\* stored list and every later call returns it, also after a change of
\* min_intersection_area or of the rules.
C22_CacheLifetime ==
    [][invalid_intersections # None =>
          /\ invalid_intersections' = invalid_intersections
          /\ last'.op = "check_intersections" => last'.ret = invalid_intersections
          /\ last' # last => last'.cached]_vars

\* a call answered from the cache with a list that the present config and
\* rules would not produce
C22_Witness ==
    /\ last.op = "check_intersections"
    /\ last.cached
    /\ last.ret \notin Recomputed

(***************************************************************************)
(* The order of the checks in validate_topology (under SpecOrder).         *)
(***************************************************************************)
RanInAnyOrder == last.op = "validate_topology_blocks"

\* C23: whatever the order in which the six blocks of validate_topology
\* run, the call raises exactly when it raises in the order of the source,
\* and otherwise returns the same mapping.
C23_OrderIndependence ==
    RanInAnyOrder =>
        /\ last.raised = last.reference.raised
        /\ last.ret = last.reference.ret

\* a call that returned a mapping with two or more entries
C23_Witness ==
    /\ RanInAnyOrder
    /\ ~last.raised
    /\ Cardinality(DOMAIN last.ret) >= 2

(***************************************************************************)
(* The feature collection and the configuration under the checks (under    *)
(* SpecChecks).                                                            *)
(***************************************************************************)
\* the issue holds the geometry and the attributes of the features at the
\* positions it was made from
RefersToFeatures(issue) ==
    IF "ref" \in DOMAIN issue
    THEN issue.geom = Geom(issue.ref) /\ issue.attrs = Attrs(issue.ref)
    ELSE /\ issue.geom1 = Geom(issue.ref1) /\ issue.attr1 = Attrs(issue.ref1)
         /\ issue.geom2 = Geom(issue.ref2) /\ issue.attr2 = Attrs(issue.ref2)

\* the lists of issues held by the last call and by the cache
IssueLists ==
    (IF invalid_intersections # None THEN {invalid_intersections.v} ELSE {})
    \cup (IF last.op \in {"check_intersections", "check_self_intersections",
                          "check_dangles", "check_overlaps", "check_containment"}
             /\ last.ret # None
          THEN {last.ret.v} ELSE {})
    \cup (IF last.op = "validate_topology"
          THEN {last.ret[k].v : k \in {n \in DOMAIN last.ret : last.ret[n].py = "list"}}
          ELSE {})

IssuesReferToFeatures ==
    \A list \in IssueLists : \A n \in 1..Len(list) : RefersToFeatures(list[n])

\* C24: no call of a check, of validate_topology or of report_summary
\* changes the feature collection or the configuration, and the issues a
\* call returns hold the geometry and attributes of the loaded features.
C24_FeaturesAndConfigUnchanged ==
    [][/\ geometries' = geometries
       /\ config' = config
       /\ IssuesReferToFeatures']_vars

\* a validate_topology that returned the issues of two or more checks
C24_Witness ==
    /\ last.op = "validate_topology"
    /\ ~last.raised
    /\ invalid_intersections # None
    /\ Cardinality({k \in DOMAIN last.ret : last.ret[k].py = "list"}) >= 2

(***************************************************************************)
(* Recovery from a faulty pair in check_intersections (under SpecRecovery).*)
(***************************************************************************)
\* the overlay of the pair raises or returns an invalid geometry
Faulty(p) ==
    /\ intersects(Geom(p[1]), Geom(p[2]))
    /\ ~_is_valid_intersection(Attrs(p[1]), Attrs(p[2]))
    /\ overlay_outcome(Geom(p[1]), Geom(p[2])) # "ok"

\* the pair is reported when it is looked at on its own
ReportedAlone(p) ==
    /\ intersects(Geom(p[1]), Geom(p[2]))
    /\ ~_is_valid_intersection(Attrs(p[1]), Attrs(p[2]))
    /\ area(intersection(Geom(p[1]), Geom(p[2])))
         >= Get(config, "min_intersection_area", 0)

\* C25: a pair whose intersection geometry cannot be computed or is
\* invalid is left out of the result, the call returns, and every other
\* pair is reported exactly when it is reported on its own.
C25_FaultyPairAloneIsOmitted ==
    Computed =>
        \A p \in Pairs :
            IF Faulty(p) THEN ~HasIssue(last.ret.v, p)
            ELSE HasIssue(last.ret.v, p) <=> ReportedAlone(p)

\* a faulty pair is evaluated before a pair of the same row that is reported
C25_Witness ==
    /\ Computed
    /\ NumFeatures = 3
    /\ Faulty(<<1, 2>>)
    /\ overlay_outcome(Geom(1), Geom(2)) = "raise"
    /\ ~Faulty(<<1, 3>>)
    /\ last.evaluated = <<<<1, 2>>, <<1, 3>>, <<2, 3>>>>
    /\ HasIssue(last.ret.v, <<1, 3>>)

(***************************************************************************)
(* The input and the result of check_gaps (under SpecGaps).                *)
(***************************************************************************)
GapsCalled == last.op = "check_gaps"

Polygonal == {k \in Positions : Geom(k).geom_type \in {"Polygon", "MultiPolygon"}}

EngineRaises(ks) == \E k \in ks : Geom(k).overlay = "raise"

\* the gap region of the features at the positions ks
GapsOf(ks, tolerance) ==
    LET union == UNION {CellsOf(Geom(k)) : k \in ks}
        gaps == Buffer(union, tolerance) \ union
    IN  IF ks = {} \/ EngineRaises(ks) \/ gaps = {} THEN None ELSE PyRegion(gaps)

\* C26: the result of check_gaps is the gap region of the Polygon and
\* MultiPolygon features of the collection, every one of them contributing
\* to the union, and None when there is none.
C26_PolygonalFeaturesDecideGaps ==
    GapsCalled => last.ret = GapsOf(Polygonal, last.tolerance)

\* the Polygon features, those that pass the filter of check_gaps
PolygonsKept == {k \in Positions : Geom(k).geom_type = "Polygon"}

\* C27 as stated: check_gaps with tolerance 0 returns None for every
\* collection, and with a tolerance above 0 and at least one polygon it
\* returns a non-empty region.
C27_ZeroToleranceNoGapsElseRing ==
    GapsCalled =>
        /\ last.tolerance = 0 => last.ret = None
        /\ (last.tolerance > 0 /\ PolygonsKept # {}) =>
               (last.ret # None /\ last.ret.v # {})

\* C27 as amended: check_gaps with tolerance 0 returns None for every
\* collection, and with a tolerance above 0 and at least one polygon it
\* returns a non-empty region unless the union or the buffer raises, in
\* which case it returns None.
C27_ZeroToleranceNoGapsElseRingUnlessRaised ==
    GapsCalled =>
        /\ last.tolerance = 0 => last.ret = None
        /\ (last.tolerance > 0 /\ PolygonsKept # {}) =>
               IF EngineRaises(PolygonsKept) THEN last.ret = None
               ELSE last.ret # None /\ last.ret.v # {}

\* a polygon with an uncovered hole, for which tolerance 0 gives None
C27_Witness ==
    /\ GapsCalled
    /\ last.tolerance = 0
    /\ UncoveredInterior # {}
    /\ ~EngineRaises(PolygonsKept)
    /\ last.ret = None

(***************************************************************************)
(* The tolerances of the configuration (under SpecTolerances).             *)
(***************************************************************************)
\* C28: whatever tolerances.gap and tolerances.overlap are, the gap region
\* and the overlaps in the mapping validate_topology returns are those of
\* tolerance 0, so configurations that differ only in the tolerances give
\* the same mapping.
C28_ConfiguredTolerancesAreNotUsed ==
    (Validated /\ ~last.raised) =>
        /\ last.gaps = check_gaps(0)
        /\ last.results["overlaps"] = check_overlaps(0).ret
        /\ "gaps" \notin DOMAIN last.ret
        /\ "overlaps" \in DOMAIN last.ret <=> Len(check_overlaps(0).ret.v) > 0

\* tolerances of 1 are configured; an overlap of area 1 is reported and no
\* gap region is, although there is a polygon
C28_Witness ==
    /\ Validated
    /\ ~last.raised
    /\ configured_gap_tolerance = 1
    /\ configured_overlap_tolerance = 1
    /\ PolygonsKept # {}
    /\ "gaps" \notin DOMAIN last.ret
    /\ "overlaps" \in DOMAIN last.ret
    /\ Len(check_overlaps(1).ret.v) = 0

(***************************************************************************)
(* Overlaps of zero area (under SpecLines).                                *)
(***************************************************************************)
OnlyLinesAndPoints ==
    \A k \in Positions : Geom(k).geom_type \in {"LineString", "Point"}

\* C29: no issue of check_overlaps is for a pair whose intersection has
\* area zero, and a collection of LineStrings and Points gives the empty
\* list, also when two lines partly coincide.
C29_NoIssueForZeroAreaOverlap ==
    (last.op = "check_overlaps" /\ ~last.raised) =>
        /\ \A n \in 1..Len(last.ret.v) :
               area(intersection(last.ret.v[n].geom1, last.ret.v[n].geom2)) > 0
        /\ OnlyLinesAndPoints => last.ret = PyList(<<>>)

\* two lines that overlap along a stretch, and the empty list
C29_Witness ==
    /\ last.op = "check_overlaps"
    /\ last.tolerance = 0
    /\ NumFeatures = 2
    /\ OnlyLinesAndPoints
    /\ overlaps(Geom(1), Geom(2))
    /\ last.ret = PyList(<<>>)

(***************************************************************************)
(* Nested mappings in the merge of the configuration (under                *)
(* SpecConstruct).                                                         *)
(***************************************************************************)
\* the check is switched off in global_settings.enabled_checks only: the
\* dataset type has an enabled_checks mapping that does not name it
OffInGlobalOnly(full_config, name) ==
    LET global == Get(full_config, "global_settings", EmptyDict)
        dataset == Get(Get(full_config, "dataset_rules", EmptyDict),
                       DatasetType, EmptyDict)
    IN  /\ "enabled_checks" \in DOMAIN global
        /\ Get(global.enabled_checks, name, TRUE) = FALSE
        /\ "enabled_checks" \in DOMAIN dataset
        /\ name \notin DOMAIN dataset.enabled_checks

\* C30: a nested mapping of the dataset type's section replaces the whole
\* mapping of that name of global_settings; a check switched off only in
\* global_settings.enabled_checks, when the dataset type has its own
\* enabled_checks without that check, is enabled, and validate_topology
\* runs every check that the merged enabled_checks does not name.
C30_MergeIsShallow ==
    /\ (Initialized /\ last.raised = "none") =>
          LET full_config == last.config_file.json
              dataset == full_config.dataset_rules[DatasetType]
          IN  /\ \A k \in DOMAIN dataset \cap {"enabled_checks", "tolerances"} :
                     config[k] = dataset[k]
              /\ \A name \in CheckNameSet :
                     OffInGlobalOnly(full_config, name) => enabled(name)
    /\ (Constructed /\ Validated /\ ~last.raised) =>
          \A name \in CheckNameSet :
              name \notin DOMAIN Get(config, "enabled_checks", EmptyDict)
                  => name \in last.executed

\* dangles is off in global_settings and missing from the dataset type's
\* own enabled_checks: the validator has it enabled
C30_Witness ==
    /\ Initialized
    /\ last.raised = "none"
    /\ OffInGlobalOnly(last.config_file.json, "dangles")
    /\ config.enabled_checks = OnlyOff("gaps")
    /\ enabled("dangles")

====
